---------------------------- MODULE Spec2Model ----------------------------
(***************************************************************************)
(* State-machine model of the two TAIFEX crawlers                          *)
(*   src/taifex_institutional_crawler.py  (pipeline "institutional")       *)
(*   src/taifex_pc_ratio_crawler.py       (pipeline "pc_ratio")            *)
(*                                                                         *)
(* Python strings are sequences of one-character strings, so that split,   *)
(* int(), f-string formatting and lexical comparison are computed, not     *)
(* assumed.  The Chinese column headers of the exchange's tables cannot be *)
(* written in a TLA+ string; each is written zh_<canonical name>, e.g.     *)
(* "zh_Date" stands for the header the code maps to 'Date'.                *)
(***************************************************************************)
EXTENDS Integers, Sequences, FiniteSets, TLC

(***************************************************************************)
(* Bounds of the model.                                                    *)
(***************************************************************************)
MaxRuns == 2
MaxTicks == 1
SecsPerDay == 1
MaxRows == 3

(***************************************************************************)
(* Python string primitives.                                               *)
(***************************************************************************)
Digits == <<"0", "1", "2", "3", "4", "5", "6", "7", "8", "9">>

IsDigit(c) == \E i \in 1..10 : Digits[i] = c

DigitVal(c) == (CHOOSE i \in 1..10 : Digits[i] = c) - 1

\* ord(c) for the characters the model uses (Python compares by code point)
Ord(c) ==
    CASE c = " " -> 32
      [] c = "%" -> 37
      [] c = "," -> 44
      [] c = "-" -> 45
      [] c = "." -> 46
      [] c = "/" -> 47
      [] IsDigit(c) -> 48 + DigitVal(c)
      [] c = "M" -> 77
      [] c = "T" -> 84
      [] c = "X" -> 88
      [] OTHER -> 120

RECURSIVE StrLess(_, _)
\* a < b for two Python strings
StrLess(a, b) ==
    IF b = <<>> THEN FALSE
    ELSE IF a = <<>> THEN TRUE
    ELSE IF Ord(Head(a)) # Ord(Head(b)) THEN Ord(Head(a)) < Ord(Head(b))
    ELSE StrLess(Tail(a), Tail(b))

\* c in s
Contains(s, c) == \E i \in 1..Len(s) : s[i] = c

RECURSIVE Split(_, _)
\* s.split(c): the list of the parts of s between occurrences of c
Split(s, c) ==
    IF ~Contains(s, c) THEN <<s>>
    ELSE LET i == CHOOSE k \in 1..Len(s) :
                     s[k] = c /\ \A j \in 1..(k - 1) : s[j] # c
         IN  <<SubSeq(s, 1, i - 1)>> \o Split(SubSeq(s, i + 1, Len(s)), c)

RECURSIVE Replace(_, _)
\* s.replace(c, '')
Replace(s, c) ==
    IF s = <<>> THEN <<>>
    ELSE IF Head(s) = c THEN Replace(Tail(s), c)
    ELSE <<Head(s)>> \o Replace(Tail(s), c)

RECURSIVE NatVal(_)
NatVal(s) == IF s = <<>> THEN 0 ELSE 10 * NatVal(SubSeq(s, 1, Len(s) - 1)) + DigitVal(s[Len(s)])

AllDigits(s) == s # <<>> /\ \A i \in 1..Len(s) : IsDigit(s[i])

\* int(s) succeeds: an optional sign followed by at least one digit
IsInt(s) == AllDigits(s) \/ (s # <<>> /\ Head(s) = "-" /\ AllDigits(Tail(s)))

\* int(s), for IsInt(s)
IntVal(s) == IF Head(s) = "-" THEN 0 - NatVal(Tail(s)) ELSE NatVal(s)

RECURSIVE NatStr(_)
NatStr(n) == IF n < 10 THEN <<Digits[n + 1]>> ELSE NatStr(n \div 10) \o <<Digits[(n % 10) + 1]>>

\* f"{n}" for an int n
IntStr(n) == IF n < 0 THEN <<"-">> \o NatStr(0 - n) ELSE NatStr(n)

\* strftime's zero-padded two-digit field
Pad2(n) == <<Digits[(n \div 10) + 1], Digits[(n % 10) + 1]>>

(***************************************************************************)
(* Values.  A cell of a table or a field of a record is a Python str or a  *)
(* non-str value (pandas gives float NaN for an empty cell).               *)
(***************************************************************************)
Str(s) == [isStr |-> TRUE, s |-> s]

NaN == [isStr |-> FALSE, s |-> <<>>]

\* bool(v): NaN is truthy, the empty string is not
Truthy(v) == ~v.isStr \/ v.s # <<>>

(***************************************************************************)
(* Tables (pandas DataFrames): a set of column names and a sequence of     *)
(* rows, each a function from the column names to cells.                   *)
(***************************************************************************)
\* columns_mapping of crawl_institutional_data
inst_columns_mapping ==
    [c \in {"zh_Date", "zh_InvestorType", "zh_LongTradeVolume", "zh_LongTradeValue",
            "zh_ShortTradeVolume", "zh_ShortTradeValue", "zh_NetTradeVolume",
            "zh_NetTradeValue", "zh_LongOIVolume", "zh_LongOIValue", "zh_ShortOIVolume",
            "zh_ShortOIValue", "zh_NetOIVolume", "zh_NetOIValue", "zh_Contract"} |->
        CASE c = "zh_Date" -> "Date"
          [] c = "zh_InvestorType" -> "InvestorType"
          [] c = "zh_LongTradeVolume" -> "LongTradeVolume"
          [] c = "zh_LongTradeValue" -> "LongTradeValue"
          [] c = "zh_ShortTradeVolume" -> "ShortTradeVolume"
          [] c = "zh_ShortTradeValue" -> "ShortTradeValue"
          [] c = "zh_NetTradeVolume" -> "NetTradeVolume"
          [] c = "zh_NetTradeValue" -> "NetTradeValue"
          [] c = "zh_LongOIVolume" -> "LongOIVolume"
          [] c = "zh_LongOIValue" -> "LongOIValue"
          [] c = "zh_ShortOIVolume" -> "ShortOIVolume"
          [] c = "zh_ShortOIValue" -> "ShortOIValue"
          [] c = "zh_NetOIVolume" -> "NetOIVolume"
          [] c = "zh_NetOIValue" -> "NetOIValue"
          [] c = "zh_Contract" -> "Contract"]

\* columns_mapping of crawl_pc_ratio
pc_columns_mapping ==
    [c \in {"zh_Date", "zh_CallVolume", "zh_PutVolume", "zh_PutCallVolumeRatio%",
            "zh_CallOI", "zh_PutOI", "zh_PutCallOIRatio%"} |->
        CASE c = "zh_Date" -> "Date"
          [] c = "zh_CallVolume" -> "CallVolume"
          [] c = "zh_PutVolume" -> "PutVolume"
          [] c = "zh_PutCallVolumeRatio%" -> "PutCallVolumeRatio%"
          [] c = "zh_CallOI" -> "CallOI"
          [] c = "zh_PutOI" -> "PutOI"
          [] c = "zh_PutCallOIRatio%" -> "PutCallOIRatio%"]

\* the instrument the institutional crawler filters on (stands for the
\* Chinese name of the index futures contract)
TargetContract == <<"T", "X">>

\* one entry of the log stream
LogEntry(lvl, msg, col, val) == [lvl |-> lvl, msg |-> msg, col |-> col, val |-> val]

\* the warnings of the "column not in table" loop
MissingColumnWarnings(df, mapping) ==
    {LogEntry("warning", "column", c, NaN) : c \in (DOMAIN mapping) \ df.cols}

\* df.rename(columns=...) for the mapped headers that are present
RenameColumns(df, mapping) ==
    LET newname(c) == IF c \in DOMAIN mapping THEN mapping[c] ELSE c
        cols2 == {newname(c) : c \in df.cols}
    IN  [cols |-> cols2,
         rows |-> [i \in 1..Len(df.rows) |->
                      [k \in cols2 |->
                          df.rows[i][CHOOSE c \in df.cols : newname(c) = k]]]]

\* lambda x: x.split(' ')[0] if isinstance(x, str) else x
LeadingToken(v) == IF v.isStr THEN Str(Split(v.s, " ")[1]) ELSE v

\* df['ContractName'] = df['Contract'].apply(...), when 'Contract' is a column
AddContractName(df) ==
    IF "Contract" \in df.cols
    THEN [cols |-> df.cols \cup {"ContractName"},
          rows |-> [i \in 1..Len(df.rows) |->
                       [k \in df.cols \cup {"ContractName"} |->
                           IF k = "ContractName"
                           THEN LeadingToken(df.rows[i]["Contract"])
                           ELSE df.rows[i][k]]]]
    ELSE df

\* df[df['ContractName'] == target]
MatchingRows(df) ==
    LET hit(r) == r["ContractName"] = Str(TargetContract)
    IN  SelectSeq(df.rows, hit)

\* mutant: the filter without its fail-open branch
FilterContract_strict(df) == MatchingRows(df)

\* the filter with its fail-open branch; df has a ContractName column
FilterContract(df) ==
    LET tx == MatchingRows(df)
    IN  IF Len(tx) > 0 THEN tx ELSE df.rows

\* mutant: the year test written "<= 1911"
ConvertDate_inclusive(v) ==
    LET date_parts == Split(v.s, "/")
    IN  IF Len(date_parts) = 3 /\ IsInt(date_parts[1]) /\ IntVal(date_parts[1]) <= 1911
        THEN Str(IntStr(IntVal(date_parts[1]) + 1911) \o <<"/">> \o date_parts[2]
                 \o <<"/">> \o date_parts[3])
        ELSE v

\* the date conversion applied to one str value holding a '/'
ConvertDate(v) ==
    LET date_parts == Split(v.s, "/")
    IN  IF Len(date_parts) = 3
        THEN IF IsInt(date_parts[1])
             THEN LET roc_year == IntVal(date_parts[1])
                  IN  IF roc_year < 1911
                      THEN Str(IntStr(roc_year + 1911) \o <<"/">> \o date_parts[2]
                               \o <<"/">> \o date_parts[3])
                      ELSE v
             ELSE v
        ELSE v

\* the date conversion of one Date value
LocalizeDate(v) == IF v.isStr /\ Contains(v.s, "/") THEN ConvertDate(v) ELSE v

\* the warning the date conversion logs for one Date value: only int()'s
\* ValueError is logged
DateWarnings(v) ==
    IF v.isStr /\ Contains(v.s, "/") /\ Len(Split(v.s, "/")) = 3
       /\ ~IsInt(Split(v.s, "/")[1])
    THEN {LogEntry("warning", "date", "", v)}
    ELSE {}

\* item[key] = item[key].replace(',', '') for the listed keys holding a str
StripCommas(item, keys) ==
    [k \in DOMAIN item |->
        IF k \in keys /\ item[k].isStr THEN Str(Replace(item[k].s, ",")) ELSE item[k]]

\* .replace(',', '').replace('%', '') for the listed keys holding a str
StripPercent(item, keys) ==
    [k \in DOMAIN item |->
        IF k \in keys /\ item[k].isStr
        THEN Str(Replace(Replace(item[k].s, ","), "%"))
        ELSE item[k]]

InstNumericKeys ==
    {"LongTradeVolume", "ShortTradeVolume", "NetTradeVolume", "LongOIVolume",
     "ShortOIVolume", "NetOIVolume", "LongTradeValue", "ShortTradeValue",
     "NetTradeValue", "LongOIValue", "ShortOIValue", "NetOIValue"}

\* the per-item loop of crawl_institutional_data
inst_clean_item(item) ==
    LET dated == IF "Date" \in DOMAIN item
                 THEN [item EXCEPT !["Date"] = LocalizeDate(item["Date"])]
                 ELSE item
    IN  StripCommas(dated, InstNumericKeys)

\* the per-item loop of crawl_pc_ratio; item has a Date key
pc_clean_item(item) ==
    LET dated == [item EXCEPT !["Date"] = LocalizeDate(item["Date"])]
    IN  StripPercent(StripCommas(dated, {"CallVolume", "PutVolume", "CallOI", "PutOI"}),
                     {"PutCallVolumeRatio%", "PutCallOIRatio%"})

(***************************************************************************)
(* Clock, paths and the files of directory data/.                          *)
(***************************************************************************)
\* datetime.now().strftime('%Y/%m/%d'): the model's days are 2024/01/01..
Today(clock) == <<"2", "0", "2", "4", "/", "0", "1", "/">> \o Pad2(clock.day)

\* datetime.now().strftime('%Y%m%d%H%M%S')
Timestamp(clock) ==
    <<"2", "0", "2", "4", "0", "1">> \o Pad2(clock.day) \o <<"0", "0", "0", "0">>
        \o Pad2(clock.sec)

LatestTag == <<"l", "a", "t", "e", "s", "t">>

\* f'data/{prefix}_{tag}{ext}'
Path(prefix, tag, ext) == [prefix |-> prefix, tag |-> tag, ext |-> ext]

\* Python's None, where a path is expected
None == Path("", <<>>, "")

inst_latest_file == Path("institutional", LatestTag, ".json")

pc_latest_file == Path("pc_ratio", LatestTag, ".json")

Json(data) == [fmt |-> "json", data |-> data]

\* what a write that failed after open(path, 'w') leaves: a truncated file
Truncated == [fmt |-> "truncated", data |-> <<>>]

RawCsv(rows) == [fmt |-> "csv", data |-> rows]

\* open(path, 'w') and a complete write
Put(fs, path, content) ==
    [q \in (DOMAIN fs) \cup {path} |-> IF q = path THEN content ELSE fs[q]]

\* How the persistence step can end: "ok", or an exception from os.makedirs,
\* from the first or second open(), or in the middle of the first or second
\* write.
FsOutcomes == {"ok", "makedirs", "open1", "write1", "open2", "write2"}

\* mutant: a failure of the second write is swallowed
PersistPair_lenient(fs, first, c1, second, c2, outcome) ==
    CASE outcome \in {"makedirs", "open1"} ->
             [exc |-> TRUE, files |-> fs, opened |-> {}, persist |-> "failed"]
      [] outcome = "write1" ->
             [exc |-> TRUE, files |-> Put(fs, first, Truncated), opened |-> {first},
              persist |-> "failed"]
      [] outcome \in {"open2", "write2"} ->
             [exc |-> FALSE, files |-> Put(fs, first, c1), opened |-> {first, second},
              persist |-> "failed"]
      [] OTHER ->
             [exc |-> FALSE, files |-> Put(Put(fs, first, c1), second, c2),
              opened |-> {first, second}, persist |-> "ok"]

\* os.makedirs, then the two writes of a fetch function, in order.
\* exc: an exception left the block; paths: the files opened for writing.
PersistPair(fs, first, c1, second, c2, outcome) ==
    CASE outcome \in {"makedirs", "open1"} ->
             [exc |-> TRUE, files |-> fs, opened |-> {}, persist |-> "failed"]
      [] outcome = "write1" ->
             [exc |-> TRUE, files |-> Put(fs, first, Truncated), opened |-> {first},
              persist |-> "failed"]
      [] outcome = "open2" ->
             [exc |-> TRUE, files |-> Put(fs, first, c1), opened |-> {first},
              persist |-> "failed"]
      [] outcome = "write2" ->
             [exc |-> TRUE, files |-> Put(Put(fs, first, c1), second, Truncated),
              opened |-> {first, second}, persist |-> "failed"]
      [] OTHER ->
             [exc |-> FALSE, files |-> Put(Put(fs, first, c1), second, c2),
              opened |-> {first, second}, persist |-> "ok"]

(***************************************************************************)
(* The fetch functions.  Each returns                                      *)
(*   ret    the returned path, or None                                     *)
(*   exc    an exception escaped the function                              *)
(*   files  the files afterwards, opened the files it opened for writing   *)
(*   log    the warnings and errors it logged                              *)
(*   persist  "skipped", "failed" or "ok": how its persistence step ended  *)
(***************************************************************************)
Outcome(exc, ret, w, log) ==
    [exc |-> exc, ret |-> ret, files |-> w.files, opened |-> w.opened, log |-> log,
     persist |-> w.persist]

\* the persistence step was not reached
NotReached(fs) == [exc |-> FALSE, files |-> fs, opened |-> {}, persist |-> "skipped"]

\* the union of the date warnings of a list of items that have a Date
DateWarningsOf(items) ==
    UNION {IF "Date" \in DOMAIN items[i] THEN DateWarnings(items[i]["Date"]) ELSE {}
             : i \in 1..Len(items)}

\* The try block of crawl_institutional_data.  resp is what pd.read_html
\* gives: an exception (kind "error") or the list of tables of the page.
crawl_institutional_try(resp, outcome, fs, clock) ==
    IF resp.kind = "error" THEN Outcome(TRUE, None, NotReached(fs), {})
    ELSE IF Len(resp.tables) = 0
    THEN Outcome(FALSE, None, NotReached(fs), {LogEntry("error", "notable", "", NaN)})
    ELSE
      LET df0 == resp.tables[1]
          warn == MissingColumnWarnings(df0, inst_columns_mapping)
          df == AddContractName(RenameColumns(df0, inst_columns_mapping))
      IN  IF "ContractName" \notin df.cols
          THEN Outcome(TRUE, None, NotReached(fs), warn)   \* KeyError: 'ContractName'
          ELSE
            LET tx == FilterContract(df)
                nomatch == IF Len(MatchingRows(df)) > 0 THEN {}
                           ELSE {LogEntry("warning", "nomatch", "", NaN)}
                data == [i \in 1..Len(tx) |-> inst_clean_item(tx[i])]
                output_file == Path("institutional", Timestamp(clock), ".json")
                w == PersistPair(fs, output_file, Json(data),
                                 inst_latest_file, Json(data), outcome)
            IN  Outcome(w.exc, IF w.exc THEN None ELSE output_file, w,
                        warn \cup nomatch \cup DateWarningsOf(tx))

\* mutant: no except clause
CatchAll_none(r) == r

\* except Exception: log it and return None
CatchAll(r) ==
    IF r.exc
    THEN [r EXCEPT !.exc = FALSE, !.ret = None,
                   !.log = r.log \cup {LogEntry("error", "exception", "", NaN)}]
    ELSE r

crawl_institutional_data(resp, outcome, fs, clock) ==
    CatchAll(crawl_institutional_try(resp, outcome, fs, clock))

\* The try block of download_csv_data.  resp is the reply to requests.post:
\* "error" (transport or HTTP error, or a body pd.read_csv rejects), "nodata"
\* and "baddate" (a body holding one of the two sentinels), or "csv" with the
\* rows pd.read_csv gives.
download_csv_try(resp, outcome, fs, clock) ==
    CASE resp.kind = "error" -> Outcome(TRUE, None, NotReached(fs), {})
      [] resp.kind = "nodata" ->
             Outcome(FALSE, None, NotReached(fs), {LogEntry("warning", "nodata", "", NaN)})
      [] resp.kind = "baddate" ->
             Outcome(FALSE, None, NotReached(fs), {LogEntry("warning", "baddate", "", NaN)})
      [] OTHER ->
             LET output_file == Path("institutional_csv", Timestamp(clock), ".json")
                 csv_file == Path("institutional_raw", Timestamp(clock), ".csv")
                 w == PersistPair(fs, output_file, Json(resp.rows),
                                  csv_file, RawCsv(resp.rows), outcome)
             IN  Outcome(w.exc, IF w.exc THEN None ELSE output_file, w, {})

download_csv_data(resp, outcome, fs, clock) ==
    CatchAll(download_csv_try(resp, outcome, fs, clock))

\* the keys the summary logging of crawl_pc_ratio reads from data[0]
PcSummaryKeys ==
    {"Date", "CallVolume", "PutVolume", "PutCallVolumeRatio%", "CallOI", "PutOI",
     "PutCallOIRatio%"}

\* The try block of crawl_pc_ratio.
crawl_pc_ratio_try(resp, outcome, fs, clock) ==
    IF resp.kind = "error" THEN Outcome(TRUE, None, NotReached(fs), {})
    ELSE IF Len(resp.tables) = 0
    THEN Outcome(FALSE, None, NotReached(fs), {LogEntry("error", "notable", "", NaN)})
    ELSE
      LET df0 == resp.tables[1]
          warn == MissingColumnWarnings(df0, pc_columns_mapping)
          df == RenameColumns(df0, pc_columns_mapping)
      IN  IF Len(df.rows) > 0 /\ "Date" \notin df.cols
          THEN Outcome(TRUE, None, NotReached(fs), warn)   \* KeyError: 'Date'
          ELSE
            LET data == [i \in 1..Len(df.rows) |-> pc_clean_item(df.rows[i])]
                output_file == Path("pc_ratio", Timestamp(clock), ".json")
                w == PersistPair(fs, output_file, Json(data),
                                 pc_latest_file, Json(data), outcome)
                \* the summary logging reads data[0][key] after both writes
                summaryFails == Len(data) > 0 /\ ~(PcSummaryKeys \subseteq df.cols)
                exc == w.exc \/ summaryFails
            IN  Outcome(exc, IF exc THEN None ELSE output_file, w,
                        warn \cup DateWarningsOf(df.rows))

crawl_pc_ratio(resp, outcome, fs, clock) ==
    CatchAll(crawl_pc_ratio_try(resp, outcome, fs, clock))

(***************************************************************************)
(* The freshness gates: the value of need_crawl.                           *)
(***************************************************************************)
RECURSIVE LatestDateLoop(_, _, _)
\* The loop over the records that finds the greatest Date, from record i on.
\* acc: [has, v] is latest_date (None when ~has).  Comparing a str with a
\* non-str raises TypeError; NaN > NaN is False.
LatestDateLoop(data, i, acc) ==
    IF i > Len(data) THEN [exc |-> FALSE, has |-> acc.has, v |-> acc.v]
    ELSE LET item == data[i]
         IN  IF "Date" \in DOMAIN item /\ Truthy(item["Date"])
             THEN IF ~acc.has
                  THEN LatestDateLoop(data, i + 1, [has |-> TRUE, v |-> item["Date"]])
                  ELSE IF item["Date"].isStr # acc.v.isStr
                  THEN [exc |-> TRUE, has |-> acc.has, v |-> acc.v]
                  ELSE IF item["Date"].isStr /\ StrLess(acc.v.s, item["Date"].s)
                  THEN LatestDateLoop(data, i + 1, [has |-> TRUE, v |-> item["Date"]])
                  ELSE LatestDateLoop(data, i + 1, acc)
             ELSE LatestDateLoop(data, i + 1, acc)

\* mutant: the institutional gate reads the first record's Date only
inst_need_crawl_first(fs, readable, clock) ==
    IF inst_latest_file \notin DOMAIN fs THEN TRUE
    ELSE IF ~readable \/ fs[inst_latest_file].fmt # "json" THEN TRUE
    ELSE LET data == fs[inst_latest_file].data
         IN  IF Len(data) = 0 THEN TRUE
             ELSE IF "Date" \notin DOMAIN data[1] THEN TRUE
             ELSE data[1]["Date"] # Str(Today(clock))

\* need_crawl of the institutional check_and_crawl.  readable: open() and
\* read of the existing file succeed.
inst_need_crawl(fs, readable, clock) ==
    IF inst_latest_file \notin DOMAIN fs THEN TRUE
    ELSE IF ~readable \/ fs[inst_latest_file].fmt # "json" THEN TRUE
    ELSE LET data == fs[inst_latest_file].data
         IN  IF Len(data) = 0 THEN TRUE
             ELSE LET r == LatestDateLoop(data, 1, [has |-> FALSE, v |-> NaN])
                  IN  IF r.exc THEN TRUE
                      ELSE IF ~r.has THEN TRUE
                      ELSE r.v # Str(Today(clock))

\* mutant: today formatted '%Y%m%d', which no localized Date equals
pc_need_crawl_compact(fs, readable, clock) ==
    IF pc_latest_file \notin DOMAIN fs THEN TRUE
    ELSE IF ~readable \/ fs[pc_latest_file].fmt # "json" THEN TRUE
    ELSE LET data == fs[pc_latest_file].data
         IN  IF Len(data) = 0 THEN TRUE
             ELSE IF "Date" \notin DOMAIN data[1] THEN TRUE
             ELSE data[1]["Date"] # Str(SubSeq(Timestamp(clock), 1, 8))

\* need_crawl of the ratio check_and_crawl
pc_need_crawl(fs, readable, clock) ==
    IF pc_latest_file \notin DOMAIN fs THEN TRUE
    ELSE IF ~readable \/ fs[pc_latest_file].fmt # "json" THEN TRUE
    ELSE LET data == fs[pc_latest_file].data
         IN  IF Len(data) = 0 THEN TRUE
             ELSE IF "Date" \notin DOMAIN data[1] THEN TRUE   \* KeyError
             ELSE data[1]["Date"] # Str(Today(clock))

(***************************************************************************)
(* What the exchange may serve.                                            *)
(***************************************************************************)
\* a date of the model's month in the exchange's minguo form, 113/01/dd
RocDate(d) == Str(<<"1", "1", "3", "/", "0", "1", "/">> \o Pad2(d))

Volume == Str(<<"1", ",", "2">>)

Ratio == Str(<<"1", ".", "5", "%">>)

TxContract == Str(<<"T", "X", " ", "2", "4">>)

\* a row of the institutional table with every expected header
InstRow(date, contract) ==
    [c \in DOMAIN inst_columns_mapping |->
        CASE c = "zh_Date" -> date
          [] c = "zh_Contract" -> contract
          [] c = "zh_InvestorType" -> Str(<<"x">>)
          [] OTHER -> Volume]

\* a row of the ratio table with every expected header
PcRow(date) ==
    [c \in DOMAIN pc_columns_mapping |->
        CASE c = "zh_Date" -> date
          [] c \in {"zh_PutCallVolumeRatio%", "zh_PutCallOIRatio%"} -> Ratio
          [] OTHER -> Volume]

\* the table with the given full rows cut down to the headers in cols
Table(cols, fullRows) ==
    [cols |-> cols,
     rows |-> [i \in 1..Len(fullRows) |-> [c \in cols |-> fullRows[i][c]]]]

Page(tables) == [kind |-> "tables", tables |-> tables]

FetchError == [kind |-> "error", tables |-> <<>>]

InstCols == DOMAIN inst_columns_mapping

PcCols == DOMAIN pc_columns_mapping

\* the rows of the system specification: none, the first day, the first day
\* followed by the second, an empty Date cell followed by the first day
DayCells == {<<>>, <<RocDate(1)>>, <<RocDate(1), RocDate(2)>>, <<NaN, RocDate(1)>>}

InstRowOf(date) == InstRow(date, TxContract)

InstDayRows == {[i \in 1..Len(q) |-> InstRowOf(q[i])] : q \in DayCells}

PcDayRows == {[i \in 1..Len(q) |-> PcRow(q[i])] : q \in DayCells}

\* replies to the institutional primary fetch, system specification
InstResponses ==
    {FetchError, Page(<<>>)}
        \cup {Page(<<Table(InstCols, r)>>) : r \in InstDayRows}
        \cup {Page(<<Table(InstCols \ {h}, <<InstRowOf(RocDate(1))>>)>>)
                : h \in {"zh_Date", "zh_Contract"}}

\* replies to the ratio primary fetch, system specification
PcResponses ==
    {FetchError, Page(<<>>)}
        \cup {Page(<<Table(PcCols, r)>>) : r \in PcDayRows}
        \cup {Page(<<Table(PcCols \ {h}, <<PcRow(RocDate(1))>>)>>)
                : h \in {"zh_Date", "zh_CallOI"}}

\* replies to the fallback download
CsvResponses ==
    {[kind |-> k, rows |-> <<>>] : k \in {"error", "nodata", "baddate"}}
        \cup {[kind |-> "csv", rows |-> <<InstRowOf(RocDate(1))>>]}

\* Date cells of the transformation specification
DateCells ==
    {RocDate(1), Str(Today([day |-> 1])), NaN, Str(<<>>),
     Str(<<"1", "9", "1", "0", "/", "1", "/", "2">>),
     Str(<<"1", "9", "1", "1", "/", "1", "/", "2">>),
     Str(<<"0", "/", "1", "/", "2">>),
     Str(<<"0", "1", "2", "/", "1", "/", "2">>),
     Str(<<"-", "5", "/", "1", "/", "2">>),
     Str(<<"x", "/", "1", "/", "2">>),
     Str(<<"/", "1", "/", "2">>),
     Str(<<"x", "/", "1">>),
     Str(<<"1", "/", "2", "/", "3", "/", "4">>),
     Str(<<"2", "0", "2", "4", "0", "1", "0", "1">>)}

\* Contract cells of the transformation specification
ContractCells ==
    {TxContract, Str(<<"T", "X">>), Str(<<"M", "T", "X", " ", "2", "4">>),
     Str(<<" ", "T", "X">>), NaN}

RECURSIVE SeqsUpTo(_, _)
\* the sequences over S of length at most n
SeqsUpTo(S, n) ==
    IF n = 0 THEN {<<>>}
    ELSE LET shorter == SeqsUpTo(S, n - 1)
         IN  shorter \cup {Append(q, x) : q \in shorter, x \in S}

\* replies to the institutional primary fetch, transformation specification:
\* every Date cell, every sequence of Contract cells, every single missing
\* header and the table with no expected header
InstTables ==
    {Table(InstCols, <<InstRow(d, TxContract)>>) : d \in DateCells}
        \cup {Table(InstCols, [i \in 1..Len(q) |-> InstRow(RocDate(1), q[i])])
                : q \in SeqsUpTo(ContractCells, MaxRows)}
        \cup {Table(InstCols \ {h}, r) : h \in InstCols,
                r \in {<<>>, <<InstRowOf(RocDate(1))>>}}
        \cup {Table({}, <<InstRowOf(RocDate(1))>>)}

PcTables ==
    {Table(PcCols, <<PcRow(d)>>) : d \in DateCells}
        \cup {Table(PcCols, <<PcRow(d), PcRow(RocDate(1))>>) : d \in DateCells}
        \cup {Table(PcCols \ {h}, r) : h \in PcCols,
                r \in {<<>>, <<PcRow(RocDate(1))>>}}
        \cup {Table({}, <<PcRow(RocDate(1))>>)}

InstResponsesT == {FetchError, Page(<<>>)} \cup {Page(<<t>>) : t \in InstTables}

PcResponsesT == {FetchError, Page(<<>>)} \cup {Page(<<t>>) : t \in PcTables}

(***************************************************************************)
(* The state machine: one process at a time runs the main block of one of  *)
(* the two scripts.                                                        *)
(***************************************************************************)
VARIABLES
    files,       \* directory data/: path -> content
    now,         \* the local clock: [day, sec]
    runs,        \* processes started so far
    pc,          \* "idle", "crawl", "fallback", "exit" or "crashed"
    pipe,        \* the script the process runs
    gate,        \* what the gate saw: [readable, today]
    need_crawl,  \* check_and_crawl's need_crawl
    result,      \* the value check_and_crawl returns: a path or None
    calls,       \* the network calls of this process, in order
    opened,      \* the files this process opened for writing
    log,         \* the warnings and errors this process logged
    upstream,    \* the reply the primary fetch received
    stdout,      \* the lines printed to standard output
    status,      \* the exit status, -1 while the process runs
    done         \* per script, how its last finished process went

vars ==
    <<files, now, runs, pc, pipe, gate, need_crawl, result, calls, opened, log,
      upstream, stdout, status, done>>

Pipelines == {"institutional", "pc_ratio"}

LatestFile(p) == IF p = "institutional" THEN inst_latest_file ELSE pc_latest_file

NoReply == [kind |-> "none", tables |-> <<>>]

NoFiles == [q \in {} |-> Truncated]

Init ==
    /\ files = NoFiles
    /\ now = [day |-> 1, sec |-> 1]
    /\ runs = 0
    /\ pc = "idle"
    /\ pipe = "institutional"
    /\ gate = [readable |-> TRUE, today |-> <<>>]
    /\ need_crawl = TRUE
    /\ result = None
    /\ calls = <<>>
    /\ opened = {}
    /\ log = {}
    /\ upstream = NoReply
    /\ stdout = <<>>
    /\ status = -1
    /\ done = [p \in Pipelines |-> [today |-> <<>>, fetched |-> FALSE]]

\* need_crawl as check_and_crawl of script p computes it
NeedCrawl(p, fs, readable, clock) ==
    IF p = "institutional" THEN inst_need_crawl(fs, readable, clock)
    ELSE pc_need_crawl(fs, readable, clock)

\* A process starts and runs check_and_crawl up to "if need_crawl:"; when
\* need_crawl is False check_and_crawl returns latest_file.
Begin(limit) ==
    /\ pc = "idle"
    /\ runs < limit
    /\ \E p \in Pipelines :
         \E readable \in (IF LatestFile(p) \in DOMAIN files THEN BOOLEAN ELSE {TRUE}) :
           LET need == NeedCrawl(p, files, readable, now)
           IN  /\ pipe' = p
               /\ gate' = [readable |-> readable, today |-> Today(now)]
               /\ need_crawl' = need
               /\ result' = IF need THEN None ELSE LatestFile(p)
               /\ pc' = IF need THEN "crawl" ELSE "exit"
    /\ runs' = runs + 1
    /\ stdout' = <<>>
    /\ status' = -1
    /\ UNCHANGED <<files, now, calls, opened, log, upstream, done>>

Call(fn, r) == [fn |-> fn, ret |-> r.ret, persist |-> r.persist]

\* an exception escapes check_and_crawl: the interpreter prints a traceback
\* and exits with status 1
Crash(r) ==
    /\ pc' = "crashed"
    /\ status' = 1
    /\ files' = r.files
    /\ opened' = opened \cup r.opened
    /\ log' = log \cup r.log
    /\ UNCHANGED <<result, stdout>>

\* mutant: the institutional script always goes on to the fallback
AfterPrimary_always(p, ret) == IF p = "institutional" THEN "fallback" ELSE "exit"

\* "if result is None:" after the primary fetch of the institutional
\* script; the ratio script returns what crawl_pc_ratio returned
AfterPrimary(p, ret) == IF p = "institutional" /\ ret = None THEN "fallback" ELSE "exit"

\* result = crawl_institutional_data(), or return crawl_pc_ratio()
Primary(instReplies, pcReplies) ==
    /\ pc = "crawl"
    /\ \E reply \in (IF pipe = "institutional" THEN instReplies ELSE pcReplies) :
         \E outcome \in FsOutcomes :
           LET r == IF pipe = "institutional"
                    THEN crawl_institutional_data(reply, outcome, files, now)
                    ELSE crawl_pc_ratio(reply, outcome, files, now)
           IN  /\ upstream' = reply
               /\ calls' = Append(calls, Call("primary", r))
               /\ IF r.exc THEN Crash(r)
                  ELSE /\ files' = r.files
                       /\ opened' = opened \cup r.opened
                       /\ log' = log \cup r.log
                       /\ result' = r.ret
                       /\ pc' = AfterPrimary(pipe, r.ret)
                       /\ UNCHANGED <<stdout, status>>
    /\ UNCHANGED <<now, runs, pipe, gate, need_crawl, done>>

\* result = download_csv_data(), then return result
Fallback ==
    /\ pc = "fallback"
    /\ \E reply \in CsvResponses :
         \E outcome \in FsOutcomes :
           LET r == download_csv_data(reply, outcome, files, now)
           IN  /\ calls' = Append(calls, Call("fallback", r))
               /\ IF r.exc THEN Crash(r)
                  ELSE /\ files' = r.files
                       /\ opened' = opened \cup r.opened
                       /\ log' = log \cup r.log
                       /\ result' = r.ret
                       /\ pc' = "exit"
                       /\ UNCHANGED <<stdout, status>>
    /\ UNCHANGED <<now, runs, pipe, gate, need_crawl, upstream, done>>

\* the line print(f'RESULT_FILE={output_file}') writes
ResultLine(path) == [line |-> "RESULT_FILE=", path |-> path]

\* "if output_file:" of the main block: a path is a non-empty str
IsPath(v) == v.prefix # ""

\* the day the process ran on, and whether it fetched and returned a path
Summary == [today |-> gate.today, fetched |-> calls # <<>> /\ IsPath(result)]

\* The main block after check_and_crawl returned; the process ends, and its
\* memory with it.
Exit ==
    /\ pc = "exit"
    /\ IF IsPath(result)
       THEN stdout' = Append(stdout, ResultLine(result)) /\ status' = 0
       ELSE stdout' = stdout /\ status' = 1
    /\ pc' = "idle"
    /\ done' = [done EXCEPT ![pipe] = Summary]
    /\ pipe' = "institutional"
    /\ gate' = [readable |-> TRUE, today |-> <<>>]
    /\ need_crawl' = TRUE
    /\ result' = None
    /\ calls' = <<>>
    /\ opened' = {}
    /\ log' = {}
    /\ upstream' = NoReply
    /\ UNCHANGED <<files, now, runs>>

\* The clock passes to the next second, which after the last second of a
\* day is the first of the next day.  Exit does not read the clock, so time
\* passing before it is time passing after it.
Tick ==
    /\ pc # "exit"
    /\ (now.day - 1) * SecsPerDay + (now.sec - 1) < MaxTicks
    /\ now' = IF now.sec < SecsPerDay
              THEN [now EXCEPT !.sec = now.sec + 1]
              ELSE [day |-> now.day + 1, sec |-> 1]
    /\ UNCHANGED <<files, runs, pc, pipe, gate, need_crawl, result, calls, opened,
                   log, upstream, stdout, status, done>>

BeginRun == Begin(MaxRuns)

PrimaryFetch == Primary(InstResponses, PcResponses)

Next == BeginRun \/ PrimaryFetch \/ Fallback \/ Exit \/ Tick

\* the system: up to MaxRuns processes, one after another, while time passes
Spec == Init /\ [][Next]_vars

BeginOnce == Begin(1)

PrimaryFetchT == Primary(InstResponsesT, PcResponsesT)

NextT == BeginOnce \/ PrimaryFetchT \/ Fallback \/ Exit

\* one process on an empty data/ directory, for every table of the
\* transformation universe
SpecT == Init /\ [][NextT]_vars

(***************************************************************************)
(* Properties.                                                             *)
(***************************************************************************)
\* the records of the latest artifact of script p as the gate read them, or
\* <<>> when there is no artifact, it cannot be read or it does not parse
LatestRecords(p) ==
    IF LatestFile(p) \in DOMAIN files /\ gate.readable
       /\ files[LatestFile(p)].fmt = "json"
    THEN files[LatestFile(p)].data
    ELSE <<>>

HasDate(item) == "Date" \in DOMAIN item /\ Truthy(item["Date"])

\* today is the lexically greatest Date of the records
GreatestDateIs(data, today) ==
    /\ \E i \in 1..Len(data) : HasDate(data[i]) /\ data[i]["Date"] = Str(today)
    /\ \A i \in 1..Len(data) :
         HasDate(data[i]) => data[i]["Date"].isStr /\ ~StrLess(today, data[i]["Date"].s)

\* today is the Date of the first record
FirstDateIs(data, today) ==
    Len(data) > 0 /\ "Date" \in DOMAIN data[1] /\ data[1]["Date"] = Str(today)

\* the latest artifact the gate read is non-empty and its representative
\* date is the gate's today
GateFresh ==
    IF pipe = "institutional" THEN GreatestDateIs(LatestRecords(pipe), gate.today)
    ELSE FirstDateIs(LatestRecords(pipe), gate.today)

\* C1: check_and_crawl skips fetching (no network call, no file opened for
\* writing, returns the latest path) exactly when the latest artifact exists,
\* is read and parsed, is non-empty and its representative date (greatest
\* Date for institutional, first record's Date for pc_ratio) is today; in
\* every other case it fetches.
C1_GateSkipsIffFresh ==
    /\ pc \in {"crawl", "fallback"} => need_crawl
    /\ pc = "crawl" => ~GateFresh
    /\ (pc = "exit" /\ ~need_crawl) =>
         GateFresh /\ calls = <<>> /\ opened = {} /\ result = LatestFile(pipe)
    /\ (pc = "exit" /\ need_crawl) => calls # <<>>

\* the institutional gate skips on an artifact whose greatest Date is not
\* its first record's
C1_Witness ==
    /\ pc = "exit" /\ ~need_crawl /\ pipe = "institutional"
    /\ Len(LatestRecords(pipe)) = 2
    /\ LatestRecords(pipe)[1]["Date"] # Str(gate.today)

\* C2 as stated: a process of a script that starts on the day on which the
\* script's previous process fetched and returned a path does not fetch.
C2_SecondRunIsNoOp ==
    (pc # "idle" /\ done[pipe].fetched /\ done[pipe].today = gate.today) => ~need_crawl

\* C2 amended: a process of a script that starts on the day on which the
\* script's previous process fetched and returned a path, and that reads a
\* non-empty latest artifact whose representative date is that day, makes no
\* network call and opens no file for writing.
C2_SecondRunIsNoOpWhenFresh ==
    (pc # "idle" /\ done[pipe].fetched /\ done[pipe].today = gate.today) =>
        /\ pc = "crawl" => ~GateFresh
        /\ ~need_crawl => calls = <<>> /\ opened = {} /\ result = LatestFile(pipe)

C2_Witness ==
    /\ pc = "exit" /\ ~need_crawl /\ pipe = "pc_ratio"
    /\ done[pipe].fetched /\ done[pipe].today = gate.today

Fns == [i \in 1..Len(calls) |-> calls[i].fn]

\* C3: the institutional script calls the primary fetch first and the
\* fallback exactly once, after it, exactly when the primary returned None;
\* the ratio script makes at most the primary call.
C3_FallbackAfterFailedPrimary ==
    /\ pipe = "pc_ratio" => Fns \in {<<>>, <<"primary">>}
    /\ pipe = "institutional" =>
         Fns \in {<<>>, <<"primary">>, <<"primary", "fallback">>}
    /\ pc = "fallback" => Fns = <<"primary">> /\ calls[1].ret = None
    /\ (pc = "exit" /\ need_crawl) =>
         /\ Len(calls) >= 1
         /\ pipe = "institutional" => (Len(calls) = 2 <=> calls[1].ret = None)

C3_Witness ==
    pc = "exit" /\ Fns = <<"primary", "fallback">> /\ IsPath(result)

\* C4: when check_and_crawl fetched and returns a path, the latest artifact
\* exists and holds what the returned timestamped artifact holds.
C4_LatestHoldsReturnedSnapshot ==
    (pc = "exit" /\ need_crawl /\ IsPath(result)) =>
        /\ LatestFile(pipe) \in DOMAIN files
        /\ result \in DOMAIN files
        /\ files[LatestFile(pipe)] = files[result]

\* C5: a timestamp-qualified artifact, once written, is never overwritten,
\* truncated or deleted.
C5_HistoryAppendOnly ==
    [][\A q \in DOMAIN files :
         q.tag # LatestTag => q \in DOMAIN files' /\ files'[q] = files[q]]_vars

C7_ExitContract ==
    [][/\ pc' # "crashed"
       /\ (pc = "exit" /\ pc' = "idle") =>
            /\ status' = 0 <=> IsPath(result)
            /\ IsPath(result) => stdout' = <<ResultLine(result)>>
            /\ ~IsPath(result) => stdout' = <<>> /\ status' > 0]_vars

C7_Witness ==
    pc = "idle" /\ status = 0 /\ Len(stdout) = 1 /\ stdout[1].path.prefix = "institutional_csv"

\* the primary fetch of the running process persisted a snapshot
PrimaryPersisted == Len(calls) >= 1 /\ calls[1].persist = "ok"

\* the rows of the table the primary fetch received
SourceRows == upstream.tables[1].rows

SourceCols == upstream.tables[1].cols

\* the records of the timestamped artifact the primary fetch wrote
Persisted ==
    files[Path(pipe, Timestamp(now), ".json")].data

\* the leading space-delimited token of a Contract cell is the target name
NamesTarget(v) ==
    /\ v.isStr
    /\ Len(v.s) >= Len(TargetContract)
    /\ SubSeq(v.s, 1, Len(TargetContract)) = TargetContract
    /\ Len(v.s) > Len(TargetContract) => v.s[Len(TargetContract) + 1] = " "

SourceContracts == [i \in 1..Len(SourceRows) |-> SourceRows[i]["zh_Contract"]]

\* C8: the snapshot the institutional primary fetch persists consists of
\* the rows whose ContractName is the target, in order, when there is one,
\* and of all rows of the table when there is none.
C8_FilterFailsOpen ==
    (pipe = "institutional" /\ PrimaryPersisted) =>
        LET kept == [i \in 1..Len(Persisted) |-> Persisted[i]["Contract"]]
            hits == SelectSeq(SourceContracts, NamesTarget)
        IN  /\ kept = IF hits # <<>> THEN hits ELSE SourceContracts
            /\ \A i \in 1..Len(Persisted) :
                 NamesTarget(Persisted[i]["Contract"])
                     <=> Persisted[i]["ContractName"] = Str(TargetContract)

C8_Witness ==
    /\ pipe = "institutional" /\ PrimaryPersisted
    /\ Len(SourceRows) >= 2
    /\ SelectSeq(SourceContracts, NamesTarget) = <<>>
    /\ Len(Persisted) = Len(SourceRows)

\* the persisted snapshot has the Date cells of the received table, row by
\* row
DatesPersisted ==
    /\ PrimaryPersisted
    /\ "zh_Date" \in SourceCols
    /\ Len(Persisted) = Len(SourceRows)

Slashes(s) == Len(SelectSeq(s, LAMBDA c : c = "/"))

\* three slash-separated components, the first an integer
RocShaped(v) == v.isStr /\ Slashes(v.s) = 2 /\ IsInt(Split(v.s, "/")[1])

Year(v) == IntVal(Split(v.s, "/")[1])

\* <first+1911>/<second>/<third>
Shifted(v) ==
    Str(IntStr(Year(v) + 1911) \o <<"/">> \o Split(v.s, "/")[2] \o <<"/">>
            \o Split(v.s, "/")[3])

Warned(v) == LogEntry("warning", "date", "", v) \in log

\* the conversions C9 states for a Date cell v persisted as out
LocalizedAsStated(v, out) ==
    /\ (RocShaped(v) /\ Year(v) < 1911) => out = Shifted(v)
    /\ (RocShaped(v) /\ Year(v) >= 1911) => out = v
    /\ ~RocShaped(v) => out = v

C10_MissingHeaderNotFatal ==
    (Len(calls) >= 1 /\ upstream.kind = "tables" /\ Len(upstream.tables) > 0
     /\ calls[1].persist # "failed") =>
        LET mapping == IF pipe = "institutional" THEN inst_columns_mapping
                       ELSE pc_columns_mapping
        IN  /\ IsPath(calls[1].ret)
            /\ PrimaryPersisted
            /\ \A h \in DOMAIN mapping :
                 /\ h \notin SourceCols =>
                      LogEntry("warning", "column", h, NaN) \in log
                 /\ \A i \in 1..Len(Persisted) :
                      h \in SourceCols <=> mapping[h] \in DOMAIN Persisted[i]

====
